---- MODULE Spec2Model ----
(***************************************************************************)
(* A model of bevy_vector_shapes:                                          *)
(*   - the quadratic Bezier shape encoder (src/src/shapes/quad_bezier.rs), *)
(*   - the deferred child linkage of ShapeChildBuilder                     *)
(*     (src/src/painter/child_commands.rs),                                *)
(*   - the canvas example systems (src/examples/canvas_modes.rs) running   *)
(*     against the canvas compositor and the painter, whose code lives     *)
(*     outside src/ and is modelled from spec.md sections 3, 4.1-4.4.      *)
(* Each subsystem has its own specification (SpecEncode, SpecChildren,     *)
(* SpecCanvas, SpecCanvasApi, SpecPainter); the variables of the           *)
(* subsystems it does not run stay at their idle values.  SpecEncode runs  *)
(* a system that draws a curve with its painter and spawns one through a   *)
(* child builder.  SpecCanvas is the example as main() and setup() build   *)
(* it; SpecCanvasApi is the canvas under any use of the interface spec.md  *)
(* section 6 gives it (creation in any mode, set_mode, redraw).            *)
(***************************************************************************)
EXTENDS Integers, Sequences, FiniteSets

VARIABLES
    \* ---- encoder (quad_bezier.rs)
    cfg,        \* the ShapeConfig the system gives its painter and its child scope
    pts,        \* the arguments [start, control, end] of the quad_bezier calls
    tf,         \* the GlobalTransform of the spawned entity at encode time
    recI,       \* the record ShapePainter::quad_bezier last handed to send, or None
    recP,       \* Some([entity, data]): the record QuadBezier::into_data last
                \* produced, and the entity it was produced for, or None
    layout,     \* result of QuadBezierData::vertex_layout, or None
    \* ---- child builder (child_commands.rs)
    chPhase,    \* "idle", "build" (the system runs), "apply", "done"
    queue,      \* the Commands queue of the system
    nextEntity, \* the next entity id Commands reserves
    scopes,     \* stack of open ShapeChildBuilder scopes, innermost last
    cursor,     \* the entity-commands handle the caller holds, or None
    world,      \* the World: alive entities, Children, Parent, components
    spawnLog,   \* history: [entity, scope, config] of every builder spawn, in order;
                \* `config` is Some(the builder's config at the call) for a bundle
                \* with a shape component, else None
    configured, \* history: the number of builder calls that set the config
    closeLog,   \* history: [parent, scope, at] of every scope closed, in order;
                \* `at` is the length of the queue when the closure had returned, plus one
    \* ---- painter (spec.md sections 4.1, 4.2)
    painter,    \* the ShapePainter of the running system: [config, stack]
    batches,    \* the frame's batches of records, one per render target
    pcalls,     \* painter calls made by the running system
    marks,      \* history: the config at every save() not yet restored
    restored,   \* history: Some(config the last call, a restore(), had to yield)
    underflowed,\* history: some restore() found the stack empty
    drawLog,    \* history: [kind, target] of every draw call of the frame
    \* ---- canvas (spec.md sections 3, 4.3, 4.4; examples/canvas_modes.rs)
    canvas,     \* the Canvas component: [mode, dirty]
    ran,        \* the systems that have run in the current frame
    keys,       \* Some([space, m]): the keys update_canvas saw this frame
    frame,      \* frames completed
    renders,    \* submissions to the canvas so far
    submitted,  \* what the last submission step drew: [main, canvas]
    last,       \* history: the last completed frame
    hist        \* history: creation mode, redraw() calls, mode changes, the mode
                \* the frame started in, the dirty flag as redraw() and the render
                \* alone leave it

varsEncode == <<cfg, pts, tf, recI, recP, layout>>

varsChildren == <<chPhase, queue, nextEntity, scopes, cursor, world, spawnLog, configured,
                  closeLog>>

varsPainter == <<painter, pcalls, marks, restored, underflowed>>

\* the batches are written by the painter and consumed by the submission step
varsBatches == <<batches, drawLog>>

varsCanvas == <<canvas, ran, keys, frame, renders, submitted, last, hist>>

vars == <<cfg, pts, tf, recI, recP, layout,
          chPhase, queue, nextEntity, scopes, cursor, world, spawnLog, configured,
          closeLog,
          painter, batches, pcalls, marks, restored, underflowed, drawLog,
          canvas, ran, keys, frame, renders, submitted, last, hist>>

\* Option<T>: None is the empty sequence, Some(x) the one-element sequence
None == <<>>

Some(x) == <<x>>

(***************************************************************************)
(* glam / bevy value types.  f32 values are modelled by small integers,    *)
(* which f32 represents exactly.                                           *)
(***************************************************************************)
Vec3(x, y, z) == <<x, y, z>>

Vec4(x, y, z, w) == [x |-> x, y |-> y, z |-> z, w |-> w]

\* Mat4: four column vectors.
Mat4(c0, c1, c2, c3) == [x_axis |-> c0, y_axis |-> c1, z_axis |-> c2, w_axis |-> c3]

\* Transform { translation, rotation (a quaternion x,y,z,w), scale }
Transform(t, r, s) == [translation |-> t, rotation |-> r, scale |-> s]

QuatIdentity == Vec4(0, 0, 0, 1)
\* half turns about the z and the x axis: their components are exact in f32
QuatHalfTurnZ == Vec4(0, 0, 1, 0)
QuatHalfTurnX == Vec4(1, 0, 0, 0)

TransformIdentity == Transform(Vec3(0, 0, 0), QuatIdentity, Vec3(1, 1, 1))

\* Transform::compute_matrix = Mat4::from_scale_rotation_translation
Transform_compute_matrix(t) ==
    LET q  == t.rotation
        x2 == q.x + q.x
        y2 == q.y + q.y
        z2 == q.z + q.z
        xx == q.x * x2
        xy == q.x * y2
        xz == q.x * z2
        yy == q.y * y2
        yz == q.y * z2
        zz == q.z * z2
        wx == q.w * x2
        wy == q.w * y2
        wz == q.w * z2
        sx == t.scale[1]
        sy == t.scale[2]
        sz == t.scale[3]
    IN  Mat4(Vec4((1 - (yy + zz)) * sx, (xy + wz) * sx, (xz - wy) * sx, 0),
             Vec4((xy - wz) * sy, (1 - (xx + zz)) * sy, (yz + wx) * sy, 0),
             Vec4((xz + wy) * sz, (yz - wx) * sz, (1 - (xx + yy)) * sz, 0),
             Vec4(t.translation[1], t.translation[2], t.translation[3], 1))

\* GlobalTransform wraps an affine map: a 3x3 matrix (three column Vec3) and a
\* translation.
GlobalTransform(mx, my, mz, t) == [mx |-> mx, my |-> my, mz |-> mz, translation |-> t]

\* GlobalTransform::compute_matrix = Mat4::from(affine)
GlobalTransform_compute_matrix(g) ==
    Mat4(Vec4(g.mx[1], g.mx[2], g.mx[3], 0),
         Vec4(g.my[1], g.my[2], g.my[3], 0),
         Vec4(g.mz[1], g.mz[2], g.mz[3], 0),
         Vec4(g.translation[1], g.translation[2], g.translation[3], 1))

\* Mat4::to_cols_array_2d: [[f32; 4]; 4], one inner array per column
ColArray(v) == <<v.x, v.y, v.z, v.w>>

to_cols_array_2d(m) ==
    <<ColArray(m.x_axis), ColArray(m.y_axis), ColArray(m.z_axis), ColArray(m.w_axis)>>

\* Mat4::from_cols_array_2d
from_cols_array_2d(a) ==
    Mat4(Vec4(a[1][1], a[1][2], a[1][3], a[1][4]),
         Vec4(a[2][1], a[2][2], a[2][3], a[2][4]),
         Vec4(a[3][1], a[3][2], a[3][3], a[3][4]),
         Vec4(a[4][1], a[4][2], a[4][3], a[4][4]))

\* Vec4 dot product and Mat4 * Mat4 (column-major: (a*b).col_j = a * b.col_j)
Mat4MulVec(a, v) ==
    Vec4(a.x_axis.x * v.x + a.y_axis.x * v.y + a.z_axis.x * v.z + a.w_axis.x * v.w,
         a.x_axis.y * v.x + a.y_axis.y * v.y + a.z_axis.y * v.z + a.w_axis.y * v.w,
         a.x_axis.z * v.x + a.y_axis.z * v.y + a.z_axis.z * v.z + a.w_axis.z * v.w,
         a.x_axis.w * v.x + a.y_axis.w * v.y + a.z_axis.w * v.z + a.w_axis.w * v.w)

Mat4Mul(a, b) ==
    Mat4(Mat4MulVec(a, b.x_axis), Mat4MulVec(a, b.y_axis),
         Mat4MulVec(a, b.z_axis), Mat4MulVec(a, b.w_axis))

\* Color::as_rgba_f32 on a Color::Rgba value
as_rgba_f32(c) == <<c.red, c.green, c.blue, c.alpha>>

(***************************************************************************)
(* Flags: the bit-packed style field (spec.md section 9).  The code of     *)
(* Flags is outside src/; the bit ranges below are the model's.            *)
(***************************************************************************)
ThicknessTypes == {"World", "Screen", "Pixels"}
Alignments == {"Center", "Outline"}
Caps == {"NoCap", "Square", "Round"}

Ordinal(v) ==
    CASE v \in {"World", "Center", "NoCap"} -> 0
      [] v \in {"Pixels", "Outline", "Square"} -> 1
      [] v \in {"Screen", "Round"} -> 2

RECURSIVE Pow2(_)
Pow2(n) == IF n = 0 THEN 1 ELSE 2 * Pow2(n - 1)

\* replace the `width`-bit field at bit `shift` of the u32 `flags` by `value`
\* (all fields lie in the low six bits, far from the u32 width)
SetBits(flags, shift, width, value) ==
    LET lo   == flags % Pow2(shift)
        hi   == flags \div Pow2(shift + width)
    IN  (hi * Pow2(shift + width) + (value % Pow2(width)) * Pow2(shift) + lo)

Flags_set_thickness_type(flags, v) == SetBits(flags, 0, 2, Ordinal(v))
Flags_set_alignment(flags, v) == SetBits(flags, 2, 1, Ordinal(v))
Flags_set_cap(flags, v) == SetBits(flags, 4, 2, Ordinal(v))

(***************************************************************************)
(* quad_bezier.rs                                                          *)
(***************************************************************************)
\* QuadBezier::new(config, start, end, control)
QuadBezier_new(config, start, end, control) ==
    [color          |-> config.color,
     thickness      |-> config.thickness,
     thickness_type |-> config.thickness_type,
     alignment      |-> config.alignment,
     cap            |-> config.cap,
     start          |-> start,
     end            |-> end,
     control        |-> control]

\* <QuadBezier as ShapeComponent>::into_data(&self, tf)
into_data(self, gtf) ==
    LET f0 == 0
        f1 == Flags_set_thickness_type(f0, self.thickness_type)
        f2 == Flags_set_alignment(f1, self.alignment)
        f3 == Flags_set_cap(f2, self.cap)
    IN  [transform |-> to_cols_array_2d(GlobalTransform_compute_matrix(gtf)),
         color     |-> as_rgba_f32(self.color),
         thickness |-> self.thickness,
         flags     |-> f3,
         start     |-> self.start,
         end       |-> self.end,
         control   |-> self.control]

\* QuadBezierData::new with the matrix written row by row (to_rows_array_2d)
QuadBezierData_new_rows(config, start, control, end) ==
    LET m  == Transform_compute_matrix(config.transform)
        f1 == Flags_set_thickness_type(0, config.thickness_type)
        f2 == Flags_set_alignment(f1, config.alignment)
        f3 == Flags_set_cap(f2, config.cap)
    IN  [transform |-> << <<m.x_axis.x, m.y_axis.x, m.z_axis.x, m.w_axis.x>>,
                          <<m.x_axis.y, m.y_axis.y, m.z_axis.y, m.w_axis.y>>,
                          <<m.x_axis.z, m.y_axis.z, m.z_axis.z, m.w_axis.z>>,
                          <<m.x_axis.w, m.y_axis.w, m.z_axis.w, m.w_axis.w>> >>,
         color     |-> as_rgba_f32(config.color),
         thickness |-> config.thickness,
         flags     |-> f3,
         start     |-> start,
         end       |-> end,
         control   |-> control]

\* QuadBezierData::new(config, start, control, end)
QuadBezierData_new(config, start, control, end) ==
    LET f0 == 0
        f1 == Flags_set_thickness_type(f0, config.thickness_type)
        f2 == Flags_set_alignment(f1, config.alignment)
        f3 == Flags_set_cap(f2, config.cap)
    IN  [transform |-> to_cols_array_2d(Transform_compute_matrix(config.transform)),
         color     |-> as_rgba_f32(config.color),
         thickness |-> config.thickness,
         flags     |-> f3,
         start     |-> start,
         end       |-> end,
         control   |-> control]

\* <QuadBezierData as ShapeData>::transform(&self)
ShapeData_transform(self) == from_cols_array_2d(self.transform)

\* a component (or bundle) handed to Commands::spawn / EntityCommands::insert
Component(name, data) == [name |-> name, data |-> data]

\* ShapeBundle::new(config, shape): only the shape component of the bundle is
\* modelled
ShapeBundle_new(config, shape) == Component("Bundle", Some(shape))

\* <ShapeBundle<QuadBezier> as QuadBezierBundle>::quad_bezier(config, start, control, end):
\* the arguments are passed on to QuadBezier::new by position
QuadBezierBundle_quad_bezier(config, start, control, end) ==
    ShapeBundle_new(config, QuadBezier_new(config, start, control, end))

\* byte sizes of the wgpu vertex formats and of the record's field types
FormatSize(f) ==
    CASE f = "Float32x4" -> 16
      [] f = "Float32x3" -> 12
      [] f = "Float32" -> 4
      [] f = "Uint32" -> 4

\* vertex_attr_array!: the offset of an attribute is the sum of the sizes of
\* the attributes before it
RECURSIVE AttrOffset(_, _)
AttrOffset(formats, i) ==
    IF i = 1 THEN 0 ELSE AttrOffset(formats, i - 1) + FormatSize(formats[i - 1])

vertex_attr_array(formats) ==
    [i \in 1..Len(formats) |->
        [shader_location |-> i - 1, format |-> formats[i], offset |-> AttrOffset(formats, i)]]

\* <QuadBezierData as ShapeData>::vertex_layout()
vertex_layout ==
    vertex_attr_array(<<"Float32x4", "Float32x4", "Float32x4", "Float32x4",
                        "Float32x4", "Float32", "Uint32", "Float32x3", "Float32x3">>)

\* #[repr(C)] struct QuadBezierData: the field slots in declaration order, a
\* [[f32; 4]; 4] being four slots of format Float32x4.  Every field has
\* alignment 4, so repr(C) places each slot right after the one before.
QuadBezierDataSlots ==
    << [field |-> "transform", format |-> "Float32x4"],
       [field |-> "transform", format |-> "Float32x4"],
       [field |-> "transform", format |-> "Float32x4"],
       [field |-> "transform", format |-> "Float32x4"],
       [field |-> "color",     format |-> "Float32x4"],
       [field |-> "thickness", format |-> "Float32"],
       [field |-> "flags",     format |-> "Uint32"],
       [field |-> "start",     format |-> "Float32x3"],
       [field |-> "end",       format |-> "Float32x3"],
       [field |-> "control",   format |-> "Float32x3"] >>

RECURSIVE SlotOffset(_, _)
SlotOffset(slots, i) ==
    IF i = 1 THEN 0 ELSE SlotOffset(slots, i - 1) + FormatSize(slots[i - 1].format)

\* size_of::<QuadBezierData>()
RecordSize(slots) == SlotOffset(slots, Len(slots)) + FormatSize(slots[Len(slots)].format)

LayoutSize(attrs) ==
    IF Len(attrs) = 0 THEN 0
    ELSE attrs[Len(attrs)].offset + FormatSize(attrs[Len(attrs)].format)

(***************************************************************************)
(* The encoder's inputs                                                    *)
(***************************************************************************)
\* largest coordinate of the points handed to the shape calls
MaxCoord == 1

Points == {Vec3(x, 2 * x, 1 - x) : x \in 0..MaxCoord}

Black == [red |-> 0, green |-> 0, blue |-> 0, alpha |-> 1]

Red == [red |-> 1, green |-> 0, blue |-> 0, alpha |-> 1]

\* a placement that translates, rotates and scales
Placed == Transform(Vec3(1, 0, 2), QuatHalfTurnX, Vec3(2, 2, 2))

GlobalTransforms ==
    {GlobalTransform(Vec3(1, 0, 0), Vec3(0, 1, 0), Vec3(0, 0, 1), Vec3(0, 0, 0)),
     GlobalTransform(Vec3(0, 2, 0), Vec3(-2, 0, 0), Vec3(0, 0, 2), Vec3(0, 4, 0))}

\* ShapeConfig: the fields the code under src/ and spec.md section 3 name
ShapeConfig(t, c, th, tt, al, cp, hollow, target, layers, pipeline) ==
    [transform |-> t, color |-> c, thickness |-> th, thickness_type |-> tt,
     alignment |-> al, cap |-> cp, hollow |-> hollow, canvas |-> target,
     render_layers |-> layers, pipeline |-> pipeline]

\* the canonical default configuration (spec.md section 4.1, reset())
DefaultConfig ==
    ShapeConfig(TransformIdentity, Black, 1, "World", "Center", "NoCap", FALSE, None, None,
                "Shape2d")

\* the configs of the encoder's runs: with and without a placement, every
\* value of thickness type, alignment and cap
EncodeConfigs ==
    {ShapeConfig(TransformIdentity, Black, 1, "World", "Center", "NoCap",
                 FALSE, None, None, "Shape2d"),
     ShapeConfig(Placed, Red, 6, "Screen", "Outline", "Round",
                 FALSE, None, None, "Shape2d"),
     ShapeConfig(Placed, Red, 1, "Pixels", "Outline", "Square",
                 FALSE, None, None, "Shape2d")}

IdleEncode ==
    /\ cfg = DefaultConfig
    /\ pts = None
    /\ tf = None
    /\ recI = None
    /\ recP = None
    /\ layout = None

InitEncode ==
    /\ cfg \in EncodeConfigs
    /\ pts \in [start : Points, control : Points, end : Points]
    /\ tf \in GlobalTransforms
    /\ recI = None
    /\ recP = None
    /\ layout = None

(***************************************************************************)
(* child_commands.rs                                                       *)
(***************************************************************************)
\* builder calls (spawn, spawn_empty, spawn_shape, add_command, set_config,
\* writes through deref_mut) in one run of the system
MaxCalls == 3
\* child scopes opened (nested or chained) in one run of the system
MaxScopes == 2

Entities == 1..(MaxCalls + 1)

\* the parent entity the system spawned before it opens the first scope
RootEntity == 1

ChildConfigs ==
    {ShapeConfig(Transform(Vec3(0, 3, 0), QuatHalfTurnZ, Vec3(1, 1, 1)),
                 Black, 1, "World", "Center", "NoCap", FALSE, None, layers, pipeline) :
        layers \in {None, Some(1)}, pipeline \in {"Shape2d", "Shape3d"}}

\* ShapeConfig::without_transform (spec.md section 3): a copy that does not
\* carry the parent's placement
without_transform(config) == [config EXCEPT !.transform = TransformIdentity]

\* a bundle without a shape component, the RenderLayers component holding
\* `layers`, and the marker component Shape3d
OpaqueBundle == Component("Bundle", None)

RenderLayers(layers) == Component("RenderLayers", Some(layers))

Shape3d == Component("Shape3d", None)

ComponentNames == {"Bundle", "RenderLayers", "Shape3d"}

\* the bundles the closures hand to spawn and spawn_shape
Bundles == {OpaqueBundle}

\* the handles the spawn calls return: EntityCommands and ShapeEntityCommands
EntityCommands(e) == [entity |-> e, shape |-> FALSE, config |-> None]

ShapeEntityCommands(e, config) == [entity |-> e, shape |-> TRUE, config |-> Some(config)]

\* commands of the queue
InsertCmd(e, c) == [type |-> "Insert", entity |-> e, component |-> c]
PushChildrenCmd(parent, children) ==
    [type |-> "PushChildren", parent |-> parent, children |-> children]
CustomCmd == [type |-> "Custom"]

\* Commands::spawn(bundle): the entity id is reserved by the caller, the
\* bundle's insertion is queued.  Commands::spawn_empty queues nothing.
Commands_spawn(q, e, bundle) == Append(q, InsertCmd(e, bundle))

\* EntityCommands::insert
EntityCommands_insert(q, e, c) == Append(q, InsertCmd(e, c))

\* Commands::add
Commands_add(q, c) == Append(q, c)

\* the ShapeChildBuilder a scope on `parent` starts with
NewBuilder(parent, config) ==
    [push_children |-> [parent |-> parent, children |-> <<>>], config |-> config]

\* ShapeChildBuilder::spawn: the new builder and queue
ShapeChildBuilder_spawn(b, q, e, bundle) ==
    [builder |-> [b EXCEPT !.push_children.children = Append(@, e)],
     queue   |-> Commands_spawn(q, e, bundle),
     handle  |-> EntityCommands(e)]

\* ShapeChildBuilder::spawn_empty that forgets to record the child
ShapeChildBuilder_spawn_empty_unrecorded(b, q, e) ==
    [builder |-> b,
     queue   |-> q,
     handle  |-> EntityCommands(e)]

\* ShapeChildBuilder::spawn_empty
ShapeChildBuilder_spawn_empty(b, q, e) ==
    [builder |-> [b EXCEPT !.push_children.children = Append(@, e)],
     queue   |-> q,
     handle  |-> EntityCommands(e)]

\* <ShapeChildBuilder as ShapeSpawner>::spawn_shape
ShapeChildBuilder_spawn_shape(b, q, e, bundle) ==
    LET q1 == Commands_spawn(q, e, bundle)
        q2 == IF b.config.render_layers # None
              THEN EntityCommands_insert(q1, e, RenderLayers(b.config.render_layers[1]))
              ELSE q1
        q3 == IF b.config.pipeline = "Shape3d"
              THEN EntityCommands_insert(q2, e, Shape3d) ELSE q2
    IN  [builder |-> [b EXCEPT !.push_children.children = Append(@, e)],
         queue   |-> q3,
         handle  |-> ShapeEntityCommands(e, b.config)]

\* ShapeChildBuilder::parent_entity
ShapeChildBuilder_parent_entity(b) == b.push_children.parent

\* <ShapeChildBuilder as ShapeSpawner>::config
ShapeChildBuilder_config(b) == b.config

\* <ShapeChildBuilder as ShapeSpawner>::set_config
ShapeChildBuilder_set_config(b, config) == [b EXCEPT !.config = config]

\* <ShapeChildBuilder as DerefMut>::deref_mut followed by the caller's writes
\* of the fields spawn_shape reads: b.render_layers = layers; b.pipeline = pipeline
ShapeChildBuilder_deref_mut(b, layers, pipeline) ==
    [b EXCEPT !.config.render_layers = layers, !.config.pipeline = pipeline]

\* ShapeChildBuilder::add_command
ShapeChildBuilder_add_command(b, q, c) ==
    [builder |-> b, queue |-> Commands_add(q, c)]

\* the tail of with_children / with_shape_children, after the closure returned:
\* the builder's PushChildren is added to the queue
with_children_close(b, q) == Commands_add(q, PushChildrenCmd(b.push_children.parent,
                                                             b.push_children.children))

SeqToSet(sq) == {sq[i] : i \in 1..Len(sq)}

RECURSIVE Without(_, _)
\* Vec::retain(|v| !drop.contains(v))
Without(sq, drop) ==
    IF sq = <<>> THEN <<>>
    ELSE IF Head(sq) \in drop THEN Without(Tail(sq), drop)
         ELSE <<Head(sq)>> \o Without(Tail(sq), drop)

\* BuildWorldChildren::push_children: the children leave their old parents, the
\* parent's Children keeps its other entries and gets the new ones at the end
World_push_children(w, parent, children) ==
    LET new == SeqToSet(children)
    IN  [w EXCEPT
            !.children = [e \in Entities |->
                            IF e = parent THEN Without(w.children[e], new) \o children
                            ELSE Without(w.children[e], new)],
            !.parent = [e \in Entities |-> IF e \in new THEN parent ELSE w.parent[e]]]

\* <PushChildren as Command>::write
PushChildren_write(cmd, w) == World_push_children(w, cmd.parent, cmd.children)

\* Command::write of the queue's commands
Command_write(cmd, w) ==
    CASE cmd.type = "Insert" ->
            [w EXCEPT !.components[cmd.entity][cmd.component.name] = Some(cmd.component.data)]
      [] cmd.type = "PushChildren" -> PushChildren_write(cmd, w)
      [] cmd.type = "Custom" -> w

EmptyWorld ==
    [alive      |-> {},
     children   |-> [e \in Entities |-> <<>>],
     parent     |-> [e \in Entities |-> 0],
     components |-> [e \in Entities |-> [n \in ComponentNames |-> None]]]

IdleChildren ==
    /\ chPhase = "idle"
    /\ queue = <<>>
    /\ nextEntity = 0
    /\ scopes = <<>>
    /\ cursor = None
    /\ world = EmptyWorld
    /\ spawnLog = <<>>
    /\ configured = 0
    /\ closeLog = <<>>

\* the handles the system may hold on the parent it spawned: through Commands
\* (an EntityCommands) or through a ShapeSpawner (a ShapeEntityCommands carrying
\* the spawner's config)
RootHandles ==
    {EntityCommands(RootEntity)} \cup {ShapeEntityCommands(RootEntity, c) : c \in ChildConfigs}

\* The system has spawned the parent and holds `handle` on it.
SystemSpawnedRoot(handle) ==
    /\ chPhase = "build"
    /\ queue = <<InsertCmd(RootEntity, OpaqueBundle)>>
    /\ nextEntity = RootEntity + 1
    /\ scopes = <<>>
    /\ cursor = Some(handle)
    /\ world = EmptyWorld
    /\ spawnLog = <<>>
    /\ configured = 0
    /\ closeLog = <<>>

InitChildren == \E handle \in RootHandles : SystemSpawnedRoot(handle)

Top == scopes[Len(scopes)]

CustomQueued == Cardinality({i \in 1..Len(queue) : queue[i].type = "Custom"})

\* a scope opens: the head of with_children / with_shape_children, up to the
\* call of the closure
OpenScope(config) ==
    /\ chPhase = "build"
    /\ cursor # None
    /\ Len(scopes) + Len(closeLog) < MaxScopes
    /\ scopes' = Append(scopes, [builder |-> NewBuilder(cursor[1].entity, without_transform(config)),
                                 handle  |-> cursor[1],
                                 id      |-> Len(scopes) + Len(closeLog) + 1])
    /\ cursor' = None
    /\ UNCHANGED <<chPhase, queue, nextEntity, world, spawnLog, configured, closeLog>>

\* ShapeEntityCommands::with_children: the scope's config is the handle's
with_children ==
    /\ cursor # None
    /\ cursor[1].shape
    /\ OpenScope(cursor[1].config[1])

\* <EntityCommands as BuildShapeChildren>::with_shape_children(config, f); a
\* ShapeEntityCommands derefs to its EntityCommands, so any handle will do
with_shape_children(config) == OpenScope(config)

\* a spawn call of the closure on the innermost builder
BuilderSpawn(r, config) ==
    /\ scopes' = [scopes EXCEPT ![Len(scopes)].builder = r.builder]
    /\ queue' = r.queue
    /\ cursor' = Some(r.handle)
    /\ spawnLog' = Append(spawnLog, [entity |-> nextEntity, scope |-> Top.id,
                                     config |-> config])
    /\ nextEntity' = nextEntity + 1
    /\ UNCHANGED <<chPhase, world, configured, closeLog>>

\* the closure of the innermost scope may make another builder call
CanCall ==
    /\ chPhase = "build"
    /\ Len(scopes) > 0
    /\ Len(spawnLog) + CustomQueued + configured < MaxCalls

spawn ==
    /\ CanCall
    /\ \E bundle \in Bundles :
          BuilderSpawn(ShapeChildBuilder_spawn(Top.builder, queue, nextEntity, bundle), None)

spawn_empty ==
    /\ CanCall
    /\ BuilderSpawn(ShapeChildBuilder_spawn_empty(Top.builder, queue, nextEntity), None)

spawn_shape(bundle) ==
    /\ CanCall
    /\ BuilderSpawn(ShapeChildBuilder_spawn_shape(Top.builder, queue, nextEntity, bundle),
                    IF bundle.data # None THEN Some(Top.builder.config) ELSE None)

\* a call of the closure that sets the innermost builder's config
BuilderConfig(b) ==
    /\ CanCall
    /\ scopes' = [scopes EXCEPT ![Len(scopes)].builder = b]
    /\ cursor' = None
    /\ configured' = configured + 1
    /\ UNCHANGED <<chPhase, queue, nextEntity, world, spawnLog, closeLog>>

set_config(config) == BuilderConfig(ShapeChildBuilder_set_config(Top.builder, config))

deref_mut(layers, pipeline) ==
    BuilderConfig(ShapeChildBuilder_deref_mut(Top.builder, layers, pipeline))

add_command ==
    /\ CanCall
    /\ LET r == ShapeChildBuilder_add_command(Top.builder, queue, CustomCmd)
       IN  /\ scopes' = [scopes EXCEPT ![Len(scopes)].builder = r.builder]
           /\ queue' = r.queue
    /\ cursor' = None
    /\ UNCHANGED <<chPhase, nextEntity, world, spawnLog, configured, closeLog>>

\* the closure returns: the rest of with_children / with_shape_children
CloseScope ==
    /\ chPhase = "build"
    /\ Len(scopes) > 0
    /\ queue' = with_children_close(Top.builder, queue)
    /\ closeLog' = Append(closeLog, [parent |-> Top.handle.entity, scope |-> Top.id,
                                     at     |-> Len(queue) + 1])
    /\ cursor' = Some(Top.handle)
    /\ scopes' = SubSeq(scopes, 1, Len(scopes) - 1)
    /\ UNCHANGED <<chPhase, nextEntity, world, spawnLog, configured>>

\* the system returns; the schedule flushes the reserved entities
SystemReturns ==
    /\ chPhase = "build"
    /\ scopes = <<>>
    /\ chPhase' = "apply"
    /\ cursor' = None
    /\ world' = [world EXCEPT !.alive = 1..(nextEntity - 1)]
    /\ UNCHANGED <<queue, nextEntity, scopes, spawnLog, configured, closeLog>>

RECURSIVE CommandQueue_apply(_, _)
\* CommandQueue::apply: every command is written to the world, in queue order
CommandQueue_apply(q, w) ==
    IF q = <<>> THEN w ELSE CommandQueue_apply(Tail(q), Command_write(Head(q), w))

\* the schedule's sync point: the queue is applied with exclusive world access.
\* The queue is kept in the model as the record of what was applied.
ApplyQueue ==
    /\ chPhase = "apply"
    /\ world' = CommandQueue_apply(queue, world)
    /\ chPhase' = "done"
    /\ UNCHANGED <<queue, nextEntity, scopes, cursor, spawnLog, configured, closeLog>>

NextChildren ==
    \/ (with_children /\ UNCHANGED <<varsEncode, varsPainter, varsBatches, varsCanvas>>)
    \/ ((\E config \in ChildConfigs : with_shape_children(config))
            /\ UNCHANGED <<varsEncode, varsPainter, varsBatches, varsCanvas>>)
    \/ (spawn /\ UNCHANGED <<varsEncode, varsPainter, varsBatches, varsCanvas>>)
    \/ (spawn_empty /\ UNCHANGED <<varsEncode, varsPainter, varsBatches, varsCanvas>>)
    \/ ((\E bundle \in Bundles : spawn_shape(bundle))
            /\ UNCHANGED <<varsEncode, varsPainter, varsBatches, varsCanvas>>)
    \/ ((\E config \in ChildConfigs : set_config(config))
            /\ UNCHANGED <<varsEncode, varsPainter, varsBatches, varsCanvas>>)
    \/ ((\E layers \in {None, Some(1)}, pipeline \in {"Shape2d", "Shape3d"} :
                deref_mut(layers, pipeline))
            /\ UNCHANGED <<varsEncode, varsPainter, varsBatches, varsCanvas>>)
    \/ (add_command /\ UNCHANGED <<varsEncode, varsPainter, varsBatches, varsCanvas>>)
    \/ (CloseScope /\ UNCHANGED <<varsEncode, varsPainter, varsBatches, varsCanvas>>)
    \/ (SystemReturns /\ UNCHANGED <<varsEncode, varsPainter, varsBatches, varsCanvas>>)
    \/ (ApplyQueue /\ UNCHANGED <<varsEncode, varsPainter, varsBatches, varsCanvas>>)

(***************************************************************************)
(* The painter: paint configuration stack and draw routing.  ShapePainter  *)
(* is outside src/; it is modelled from spec.md sections 3, 4.1, 4.2, 4.4. *)
(***************************************************************************)
\* painter calls of one system run
MaxPainterCalls == 4

\* the canvas entities draws can be directed to
CanvasEntity == 1
OtherCanvasEntity == 2

\* render targets: None is the main framebuffer, Some(c) the canvas c
Targets == {None, Some(CanvasEntity), Some(OtherCanvasEntity)}

EmptyBatches == [t \in Targets |-> <<>>]

\* a painter as a system receives it
NewPainter == [config |-> DefaultConfig, stack |-> <<>>]

Crimson == [red |-> 1, green |-> 0, blue |-> 0, alpha |-> 1]

\* Quat * Quat
QuatMul(a, b) ==
    Vec4(a.w * b.x + a.x * b.w + a.y * b.z - a.z * b.y,
         a.w * b.y - a.x * b.z + a.y * b.w + a.z * b.x,
         a.w * b.z + a.x * b.y - a.y * b.x + a.z * b.w,
         a.w * b.w - a.x * b.x - a.y * b.y - a.z * b.z)

\* save(): a copy of the current config is pushed
ShapePainter_save(p) == [p EXCEPT !.stack = Append(@, p.config)]

\* restore() that pops the stack and keeps the current config
ShapePainter_restore_keep(p) ==
    IF p.stack = <<>> THEN p
    ELSE [p EXCEPT !.stack = SubSeq(p.stack, 1, Len(p.stack) - 1)]

\* restore(): the top of the stack replaces the config; on an empty stack the
\* call fails and changes nothing
ShapePainter_restore(p) ==
    IF p.stack = <<>> THEN p
    ELSE [config |-> p.stack[Len(p.stack)],
          stack  |-> SubSeq(p.stack, 1, Len(p.stack) - 1)]

\* reset(): the canonical default replaces the config
ShapePainter_reset(p) == [p EXCEPT !.config = DefaultConfig]

\* translate(v): composed onto the current transform, in local space
ShapePainter_translate(p, v) ==
    LET m == Transform_compute_matrix(p.config.transform)
        q == Mat4MulVec(m, Vec4(v[1], v[2], v[3], 1))
    IN  [p EXCEPT !.config.transform.translation = Vec3(q.x, q.y, q.z)]

\* rotate(q)
ShapePainter_rotate(p, q) ==
    [p EXCEPT !.config.transform.rotation = QuatMul(@, q)]

\* scale(s)
ShapePainter_scale(p, sc) ==
    [p EXCEPT !.config.transform.scale = Vec3(@[1] * sc[1], @[2] * sc[2], @[3] * sc[3])]

\* set_canvas(c)
ShapePainter_set_canvas(p, c) == [p EXCEPT !.config.canvas = Some(c)]

\* painter.color = c, painter.thickness = t, painter.hollow = h (DerefMut)
ShapePainter_set_color(p, c) == [p EXCEPT !.config.color = c]

ShapePainter_set_thickness(p, t) == [p EXCEPT !.config.thickness = t]

ShapePainter_set_hollow(p, h) == [p EXCEPT !.config.hollow = h]

\* the record of a shape: the Geometry Encoder of spec.md section 2
ShapeRecord(kind, config, geometry) ==
    [kind      |-> kind,
     transform |-> to_cols_array_2d(Transform_compute_matrix(config.transform)),
     color     |-> as_rgba_f32(config.color),
     thickness |-> config.thickness,
     flags     |-> Flags_set_cap(Flags_set_alignment(
                      Flags_set_thickness_type(0, config.thickness_type),
                      config.alignment), config.cap),
     hollow    |-> config.hollow,
     geometry  |-> geometry]

\* send(record): appended to the batch of the config's target
ShapePainter_send(p, b, rec) == [b EXCEPT ![p.config.canvas] = Append(@, rec)]

\* circle(radius)
ShapePainter_circle(p, b, radius) ==
    ShapePainter_send(p, b, ShapeRecord("circle", p.config, radius))

\* image(handle, size)
ShapePainter_image(p, b, handle, size) ==
    ShapePainter_send(p, b, ShapeRecord("image", p.config, <<handle, size>>))

IdlePainter ==
    /\ painter = NewPainter
    /\ pcalls = 0
    /\ marks = <<>>
    /\ restored = None
    /\ underflowed = FALSE

IdleBatches ==
    /\ batches = EmptyBatches
    /\ drawLog = <<>>

\* a configuration call of the running system; `restored` is reset
ConfigCall(p) ==
    /\ pcalls < MaxPainterCalls
    /\ painter' = p
    /\ pcalls' = pcalls + 1
    /\ restored' = None
    /\ UNCHANGED <<marks, underflowed, batches, drawLog>>

Save ==
    /\ pcalls < MaxPainterCalls
    /\ painter' = ShapePainter_save(painter)
    /\ marks' = Append(marks, painter.config)
    /\ pcalls' = pcalls + 1
    /\ restored' = None
    /\ UNCHANGED <<underflowed, batches, drawLog>>

Restore ==
    /\ pcalls < MaxPainterCalls
    /\ painter' = ShapePainter_restore(painter)
    /\ restored' = IF marks = <<>>
                   THEN Some([config |-> painter.config, underflow |-> TRUE])
                   ELSE Some([config |-> marks[Len(marks)], underflow |-> FALSE])
    /\ marks' = IF marks = <<>> THEN marks ELSE SubSeq(marks, 1, Len(marks) - 1)
    /\ underflowed' = (underflowed \/ marks = <<>>)
    /\ pcalls' = pcalls + 1
    /\ UNCHANGED <<batches, drawLog>>

Reset == ConfigCall(ShapePainter_reset(painter))

Translate == ConfigCall(ShapePainter_translate(painter, Vec3(0, 1, 0)))

Rotate == ConfigCall(ShapePainter_rotate(painter, QuatHalfTurnZ))

Scale == ConfigCall(ShapePainter_scale(painter, Vec3(2, 2, 2)))

SetColor == ConfigCall(ShapePainter_set_color(painter, Crimson))

SetThickness == ConfigCall(ShapePainter_set_thickness(painter, 6))

SetCanvas == \E c \in {CanvasEntity, OtherCanvasEntity} :
                ConfigCall(ShapePainter_set_canvas(painter, c))

\* a draw call of the running system
DrawCall(kind, b) ==
    /\ pcalls < MaxPainterCalls
    /\ batches' = b
    /\ drawLog' = Append(drawLog, [kind |-> kind, target |-> painter.config.canvas])
    /\ pcalls' = pcalls + 1
    /\ restored' = None
    /\ UNCHANGED <<painter, marks, underflowed>>

Circle == DrawCall("circle", ShapePainter_circle(painter, batches, 48))

Image == DrawCall("image", ShapePainter_image(painter, batches, "canvas_image", 20))

(***************************************************************************)
(* The quad_bezier calls of quad_bezier.rs and the renderer's encoding of   *)
(* the spawned entities                                                    *)
(***************************************************************************)
\* quad_bezier calls the system makes on its painter, and on its spawners
MaxCurves == 1

\* <ShapePainter as QuadBezierPainter>::quad_bezier: the record built from the
\* painter's config is handed to send
ShapePainter_quad_bezier(p, b, start, control, end) ==
    LET rec == QuadBezierData_new(p.config, start, control, end)
    IN  [record |-> rec, batches |-> ShapePainter_send(p, b, rec)]

\* the system calls painter.quad_bezier(start, control, end)
PainterQuadBezier ==
    /\ pcalls < MaxCurves
    /\ LET r == ShapePainter_quad_bezier(painter, batches, pts.start, pts.control, pts.end)
       IN  /\ recI' = Some(r.record)
           /\ DrawCall("quad_bezier", r.batches)
    /\ UNCHANGED <<cfg, pts, tf, recP, layout>>

\* <T as QuadBezierSpawner>::quad_bezier on a ShapeChildBuilder: spawn_shape of
\* the bundle built from the builder's config
SpawnerQuadBezier ==
    /\ Len(spawnLog) < MaxCurves
    /\ spawn_shape(QuadBezierBundle_quad_bezier(ShapeChildBuilder_config(Top.builder),
                                                pts.start, pts.control, pts.end))
    /\ UNCHANGED varsEncode

\* the entities of the world that carry a QuadBezier component
QuadBezierEntities(w) ==
    {e \in w.alive : /\ w.components[e]["Bundle"] # None
                     /\ w.components[e]["Bundle"][1] # None}

\* the renderer encodes a spawned entity: into_data(component, global transform)
EncodeEntity ==
    /\ chPhase = "done"
    /\ \E e \in QuadBezierEntities(world) :
          recP' = Some([entity |-> e,
                        data   |-> into_data(world.components[e]["Bundle"][1][1], tf)])
    /\ UNCHANGED <<cfg, pts, tf, recI, layout>>

\* the pipeline asks for the vertex layout
VertexLayout ==
    /\ layout' = Some(vertex_layout)
    /\ UNCHANGED <<cfg, pts, tf, recI, recP>>

\* the system of the encoder specification: it draws the curve with its
\* painter, and spawns it under the parent in child scopes given cfg, whose
\* builders it may hand cfg as it is
NextEncode ==
    \/ (PainterQuadBezier /\ UNCHANGED <<varsChildren, varsCanvas>>)
    \/ (with_shape_children(cfg)
            /\ UNCHANGED <<varsEncode, varsPainter, varsBatches, varsCanvas>>)
    \/ (set_config(cfg) /\ UNCHANGED <<varsEncode, varsPainter, varsBatches, varsCanvas>>)
    \/ (SpawnerQuadBezier /\ UNCHANGED <<varsPainter, varsBatches, varsCanvas>>)
    \/ (CloseScope /\ UNCHANGED <<varsEncode, varsPainter, varsBatches, varsCanvas>>)
    \/ (SystemReturns /\ UNCHANGED <<varsEncode, varsPainter, varsBatches, varsCanvas>>)
    \/ (ApplyQueue /\ UNCHANGED <<varsEncode, varsPainter, varsBatches, varsCanvas>>)
    \/ (EncodeEntity /\ UNCHANGED <<varsChildren, varsPainter, varsBatches, varsCanvas>>)
    \/ (VertexLayout /\ UNCHANGED <<varsChildren, varsPainter, varsBatches, varsCanvas>>)

(***************************************************************************)
(* The canvas: the example systems of examples/canvas_modes.rs, and the    *)
(* compositor and submission step of spec.md sections 3, 4.3, 4.4 (their   *)
(* code is outside src/).                                                  *)
(***************************************************************************)
\* frames the run lasts
MaxFrames == 3

Modes == {"Continuous", "Persistent", "OnDemand"}

\* spawn_canvas: a Persistent canvas is drawn once at creation, a Continuous
\* one every frame, an OnDemand one not before redraw()
Canvas_new(mode) == [mode |-> mode, dirty |-> (mode = "Persistent")]

\* Canvas::redraw
Canvas_redraw(c) == [c EXCEPT !.dirty = TRUE]

\* set_mode (spec.md sections 4.3, 6): any mode can be switched to any other;
\* the switch does not itself trigger a redraw
Canvas_set_mode(c, mode) == [c EXCEPT !.mode = mode]

\* the match of update_canvas
NextMode(mode) ==
    CASE mode = "Continuous" -> "Persistent"
      [] mode = "Persistent" -> "OnDemand"
      [] mode = "OnDemand" -> "Continuous"

\* update_canvas that requests a redraw whatever the keys are
update_canvas_run_always(c, space, m) ==
    LET c1 == Canvas_redraw(c)
    IN  IF m THEN [c1 EXCEPT !.mode = NextMode(c1.mode)] ELSE c1

\* update_canvas that does not react to Space
update_canvas_run_deaf(c, space, m) ==
    IF m THEN [c EXCEPT !.mode = NextMode(c.mode)] ELSE c

\* update_canvas whose mode switch also invalidates the canvas
update_canvas_run_dirtying(c, space, m) ==
    LET c1 == IF space THEN Canvas_redraw(c) ELSE c
    IN  IF m THEN Canvas_redraw([c1 EXCEPT !.mode = NextMode(c1.mode)]) ELSE c1

\* update_canvas(keys, canvas): the canvas after the system, given whether
\* Space and M were just pressed
update_canvas_run(c, space, m) ==
    LET c1 == IF space THEN Canvas_redraw(c) ELSE c
    IN  IF m THEN [c1 EXCEPT !.mode = NextMode(c1.mode)] ELSE c1

\* draw_shapes with set_canvas moved before the image call
draw_shapes_run_early(s, canvas_e, image, b) ==
    LET p0 == NewPainter
        p1 == ShapePainter_set_canvas(p0, canvas_e)
        b1 == ShapePainter_image(p1, b, image, 20)
        p2 == ShapePainter_set_hollow(p1, TRUE)
        p3 == ShapePainter_set_thickness(p2, 6)
        p4 == ShapePainter_set_color(p3, Crimson)
        p5 == ShapePainter_translate(p4, Vec3(0, s * 256, 0))
        b2 == ShapePainter_circle(p5, b1, 48)
        p6 == ShapePainter_reset(p5)
    IN  [painter |-> p6, batches |-> b2]

\* draw_shapes(time, painter, canvas) of canvas_modes.rs: the painter and the
\* batches after the system; s stands for time.elapsed_seconds().sin()
draw_shapes_run(s, canvas_e, image, b) ==
    LET p0 == NewPainter
        b1 == ShapePainter_image(p0, b, image, 20)
        p1 == ShapePainter_set_canvas(p0, canvas_e)
        p2 == ShapePainter_set_hollow(p1, TRUE)
        p3 == ShapePainter_set_thickness(p2, 6)
        p4 == ShapePainter_set_color(p3, Crimson)
        p5 == ShapePainter_translate(p4, Vec3(0, s * 256, 0))
        b2 == ShapePainter_circle(p5, b1, 48)
        p6 == ShapePainter_reset(p5)
    IN  [painter |-> p6, batches |-> b2]

\* redraw decision that draws every canvas in every frame
Canvas_should_redraw_always(c) == TRUE

\* the compositor's decision for a frame (spec.md section 3, Canvas invariant)
Canvas_should_redraw(c) == c.mode = "Continuous" \/ c.dirty

\* the submission step: the main framebuffer's batch is drawn unconditionally,
\* the canvas's batch only when the compositor says so
Submit(b, redraw) ==
    [main   |-> b[None],
     canvas |-> IF redraw THEN Some(b[Some(CanvasEntity)]) ELSE None]

NoFrame == [startMode |-> "None", space |-> FALSE, m |-> FALSE, switched |-> FALSE,
            mode |-> "None", dirty |-> FALSE, rendered |-> FALSE]

\* the history of a canvas just created in `mode`
NewHist(mode) ==
    [created |-> mode, everRedraw |-> FALSE, everSwitched |-> FALSE,
     frameMode |-> mode, switchedNow |-> FALSE, op |-> None,
     dirtyKept |-> (mode = "Persistent")]

\* the mode of a canvas whose config names none: the first of the cycle
DefaultMode == "Continuous"

\* CanvasConfig::new(width, height): a config that names no mode
CanvasConfig_new == [mode |-> DefaultMode]

\* spawn_canvas(config): the state once the canvas exists
spawn_canvas(config) ==
    /\ canvas = Canvas_new(config.mode)
    /\ hist = NewHist(config.mode)
    /\ ran = {}
    /\ keys = None
    /\ frame = 0
    /\ renders = 0
    /\ submitted = [main |-> <<>>, canvas |-> None]
    /\ last = NoFrame

IdleCanvas == spawn_canvas(CanvasConfig_new)

\* setup: the canvas is spawned with CanvasConfig::new(1024, 1024)
InitCanvas == spawn_canvas(CanvasConfig_new)

\* an application that creates its canvas in a mode of its choice
\* (spec.md section 6: spawn_canvas(size, mode))
InitCanvasApi == \E mode \in Modes : spawn_canvas([CanvasConfig_new EXCEPT !.mode = mode])

\* the system update_canvas runs, with any keys just pressed
update_canvas ==
    /\ "update_canvas" \notin ran
    /\ frame < MaxFrames
    /\ \E space, m \in BOOLEAN :
          /\ canvas' = update_canvas_run(canvas, space, m)
          /\ keys' = Some([space |-> space, m |-> m])
          /\ hist' = [hist EXCEPT
                        !.everRedraw = @ \/ space,
                        !.everSwitched = @ \/ m,
                        !.switchedNow = @ \/ m,
                        !.op = IF m THEN Some([from |-> canvas.mode,
                                               to   |-> NextMode(canvas.mode)])
                               ELSE @,
                        !.dirtyKept = @ \/ space]
    /\ ran' = ran \cup {"update_canvas"}
    /\ UNCHANGED <<frame, renders, submitted, last, batches, drawLog>>

\* a system of the application sets the canvas's mode, to any of the modes
set_mode ==
    /\ "set_mode" \notin ran
    /\ frame < MaxFrames
    /\ \E mode \in Modes :
          /\ canvas' = Canvas_set_mode(canvas, mode)
          /\ hist' = [hist EXCEPT
                        !.everSwitched = @ \/ (mode # canvas.mode),
                        !.switchedNow = @ \/ (mode # canvas.mode),
                        !.op = Some([from |-> canvas.mode, to |-> mode])]
    /\ ran' = ran \cup {"set_mode"}
    /\ UNCHANGED <<keys, frame, renders, submitted, last, batches, drawLog>>

\* the system draw_shapes runs
draw_shapes ==
    /\ "draw_shapes" \notin ran
    /\ frame < MaxFrames
    /\ \E s \in {-1, 0, 1} :
          batches' = draw_shapes_run(s, CanvasEntity, "canvas_image", batches).batches
    /\ drawLog' = drawLog \o <<[kind |-> "image", target |-> None],
                               [kind |-> "circle", target |-> Some(CanvasEntity)]>>
    /\ ran' = ran \cup {"draw_shapes"}
    /\ UNCHANGED <<canvas, keys, frame, renders, submitted, last, hist>>

\* the render pass of the frame, after the systems: the compositor decides,
\* the batches are submitted and cleared, the dirty flag is consumed
Render ==
    /\ {"update_canvas", "draw_shapes"} \subseteq ran
    /\ LET redraw == Canvas_should_redraw(canvas)
       IN  /\ submitted' = Submit(batches, redraw)
           /\ renders' = renders + (IF redraw THEN 1 ELSE 0)
           /\ last' = [startMode |-> hist.frameMode, space |-> keys[1].space,
                       m |-> keys[1].m, switched |-> hist.switchedNow,
                       mode |-> canvas.mode, dirty |-> canvas.dirty,
                       rendered |-> redraw]
    /\ hist' = [hist EXCEPT !.frameMode = canvas.mode,
                            !.switchedNow = FALSE,
                            !.dirtyKept = FALSE]
    /\ canvas' = [canvas EXCEPT !.dirty = FALSE]
    /\ batches' = EmptyBatches
    /\ drawLog' = <<>>
    /\ ran' = {}
    /\ keys' = None
    /\ frame' = frame + 1

\* the example: its two systems and the render pass of the frame
NextCanvas ==
    \/ (update_canvas /\ UNCHANGED <<varsEncode, varsChildren, varsPainter>>)
    \/ (draw_shapes /\ UNCHANGED <<varsEncode, varsChildren, varsPainter>>)
    \/ (Render /\ UNCHANGED <<varsEncode, varsChildren, varsPainter>>)

\* an application that has, besides the example's two systems, a system that
\* calls set_mode
NextCanvasApi ==
    \/ (update_canvas /\ UNCHANGED <<varsEncode, varsChildren, varsPainter>>)
    \/ (set_mode /\ UNCHANGED <<varsEncode, varsChildren, varsPainter>>)
    \/ (draw_shapes /\ UNCHANGED <<varsEncode, varsChildren, varsPainter>>)
    \/ (Render /\ UNCHANGED <<varsEncode, varsChildren, varsPainter>>)

(***************************************************************************)
(* The specifications, one per subsystem                                   *)
(***************************************************************************)
InitChildrenOnly == InitChildren /\ IdleEncode /\ IdlePainter /\ IdleBatches /\ IdleCanvas

SpecChildren == InitChildrenOnly /\ [][NextChildren]_vars

\* the system holds a painter whose config is cfg and has spawned the parent
\* through Commands
InitEncodeOnly ==
    /\ InitEncode
    /\ SystemSpawnedRoot(EntityCommands(RootEntity))
    /\ painter = [NewPainter EXCEPT !.config = cfg]
    /\ pcalls = 0
    /\ marks = <<>>
    /\ restored = None
    /\ underflowed = FALSE
    /\ IdleBatches
    /\ IdleCanvas

SpecEncode == InitEncodeOnly /\ [][NextEncode]_vars

InitCanvasOnly == InitCanvas /\ IdleEncode /\ IdleChildren /\ IdlePainter /\ IdleBatches

\* the example canvas_modes
SpecCanvas == InitCanvasOnly /\ [][NextCanvas]_vars

InitCanvasApiOnly == InitCanvasApi /\ IdleEncode /\ IdleChildren /\ IdlePainter /\ IdleBatches

\* the canvas under any use of its interface: created in any mode, its mode
\* set to any mode, redraw() called in any frame
SpecCanvasApi == InitCanvasApiOnly /\ [][NextCanvasApi]_vars

\* one frame's drawing pass: a system makes painter calls, and the example's
\* draw_shapes runs with its own painter
NextPainter ==
    \/ (Save /\ UNCHANGED <<varsEncode, varsChildren, varsCanvas>>)
    \/ (Restore /\ UNCHANGED <<varsEncode, varsChildren, varsCanvas>>)
    \/ (Reset /\ UNCHANGED <<varsEncode, varsChildren, varsCanvas>>)
    \/ (Translate /\ UNCHANGED <<varsEncode, varsChildren, varsCanvas>>)
    \/ (Rotate /\ UNCHANGED <<varsEncode, varsChildren, varsCanvas>>)
    \/ (Scale /\ UNCHANGED <<varsEncode, varsChildren, varsCanvas>>)
    \/ (SetColor /\ UNCHANGED <<varsEncode, varsChildren, varsCanvas>>)
    \/ (SetThickness /\ UNCHANGED <<varsEncode, varsChildren, varsCanvas>>)
    \/ (SetCanvas /\ UNCHANGED <<varsEncode, varsChildren, varsCanvas>>)
    \/ (Circle /\ UNCHANGED <<varsEncode, varsChildren, varsCanvas>>)
    \/ (Image /\ UNCHANGED <<varsEncode, varsChildren, varsCanvas>>)
    \/ (draw_shapes /\ UNCHANGED <<varsEncode, varsChildren, varsPainter>>)

InitPainterOnly == IdlePainter /\ IdleBatches /\ IdleCanvas /\ IdleEncode /\ IdleChildren

SpecPainter == InitPainterOnly /\ [][NextPainter]_vars

(***************************************************************************)
(* Claims about the canvas                                                 *)
(***************************************************************************)
\* C1: a canvas created Persistent whose mode never changes and on which
\* redraw() is never called is rendered exactly once, in its first frame, and
\* in no later frame, however many frames follow.
C1_PersistentOnce ==
    (hist.created = "Persistent" /\ ~hist.everSwitched /\ ~hist.everRedraw) =>
        /\ renders = (IF frame >= 1 THEN 1 ELSE 0)
        /\ frame >= 2 => (~last.rendered /\ submitted.canvas = None)

C1_Witness ==
    /\ hist.created = "Persistent"
    /\ ~hist.everSwitched
    /\ ~hist.everRedraw
    /\ frame = MaxFrames
    /\ renders = 1

\* C2: in a frame the canvas spends in OnDemand mode it is rendered exactly
\* when redraw() was called in that frame, and the render consumes the dirty
\* flag: the next frame starts clean.
C2_OnDemand ==
    /\ (last.startMode = "OnDemand" /\ ~last.switched) => (last.rendered <=> last.space)
    /\ (frame >= 1 /\ keys = None) => ~canvas.dirty

\* an OnDemand canvas: a frame without redraw() and without render, then a
\* frame with redraw() and one render
C2_Witness ==
    /\ hist.created = "OnDemand"
    /\ ~hist.everSwitched
    /\ frame = 2
    /\ last.space
    /\ last.rendered
    /\ renders = 1

\* C3: in every frame the canvas is redrawn exactly when its mode is
\* Continuous or its dirty flag is set at the render; never with a mode other
\* than Continuous and a clear flag.
C3_RedrawRule ==
    last.mode # "None" =>
        /\ last.rendered <=> (last.mode = "Continuous" \/ last.dirty)
        /\ (submitted.canvas # None) <=> last.rendered

C3_Witness ==
    /\ last.mode = "Persistent"
    /\ ~last.dirty
    /\ ~last.rendered
    /\ renders >= 1
    /\ submitted.main # <<>>

C6_SaveRestore ==
    /\ restored # None => painter.config = restored[1].config
    /\ Len(painter.stack) = Len(marks)

\* translate, save, a configuration call, restore
C6_Witness ==
    /\ restored # None
    /\ ~restored[1].underflow
    /\ marks = <<>>
    /\ painter.config # DefaultConfig
    /\ pcalls = MaxPainterCalls

\* C6 as stated: after every sequence of save(), restore() and configuration
\* calls in which save() and restore() are balanced and properly nested, the
\* config is the one before the sequence (the painter's initial one).  Only
\* sequences that end with a restore() are looked at.
C6_BalancedKeepsConfig ==
    (restored # None /\ marks = <<>> /\ ~underflowed) =>
        painter.config = NewPainter.config

RECURSIVE KindsFor(_, _)
\* the kinds of the draw calls issued with target t, in order
KindsFor(log, t) ==
    IF log = <<>> THEN <<>>
    ELSE IF Head(log).target = t THEN <<Head(log).kind>> \o KindsFor(Tail(log), t)
         ELSE KindsFor(Tail(log), t)

BatchKinds(b) == [i \in 1..Len(b) |-> b[i].kind]

\* C7: every draw call is appended to the batch of the target set when it was
\* issued and to no other: the canvas c after set_canvas(c), the main
\* framebuffer before set_canvas and after reset(); draw_shapes puts its image
\* into the main framebuffer's batch and its circle into the canvas's.
C7_DrawRouting ==
    \A t \in Targets : BatchKinds(batches[t]) = KindsFor(drawLog, t)

\* draw_shapes has run, and a system drew into the other canvas and, after
\* reset(), into the main framebuffer
C7_Witness ==
    /\ "draw_shapes" \in ran
    /\ BatchKinds(batches[Some(CanvasEntity)]) = <<"circle">>
    /\ batches[Some(OtherCanvasEntity)] # <<>>
    /\ Len(batches[None]) >= 2
    /\ painter.config = DefaultConfig
    /\ pcalls = MaxPainterCalls

(***************************************************************************)
(* Claims about the child builder                                          *)
(***************************************************************************)
RECURSIVE SpawnedIn(_, _)
\* the entities the closure of scope `id` spawned, in spawn order
SpawnedIn(log, id) ==
    IF log = <<>> THEN <<>>
    ELSE IF Head(log).scope = id THEN <<Head(log).entity>> \o SpawnedIn(Tail(log), id)
         ELSE SpawnedIn(Tail(log), id)

RECURSIVE ScopesChildren(_, _)
\* the entities spawned by the closed scopes on parent p, scope after scope
ScopesChildren(closed, p) ==
    IF closed = <<>> THEN <<>>
    ELSE IF Head(closed).parent = p
         THEN SpawnedIn(spawnLog, Head(closed).scope) \o ScopesChildren(Tail(closed), p)
         ELSE ScopesChildren(Tail(closed), p)

ScopesOn(p) == {j \in 1..Len(closeLog) : closeLog[j].parent = p}

NoDuplicates(sq) == \A i, j \in 1..Len(sq) : sq[i] = sq[j] => i = j

\* C5: while closures run nothing is linked; every with_children /
\* with_shape_children call queues exactly one PushChildren command, after its
\* closure has returned and after the spawn commands of its scope, holding the
\* scope's entities in spawn order; once the queue is applied a parent with one
\* scope has exactly its scope's entities as children, each once, in spawn
\* order (with several scopes: scope after scope).
C5_AtomicChildren ==
    /\ chPhase \in {"build", "apply"} =>
          \A e \in Entities : world.children[e] = <<>> /\ world.parent[e] = 0
    /\ chPhase \in {"build", "apply", "done"} =>
          /\ Cardinality({i \in 1..Len(queue) : queue[i].type = "PushChildren"})
                = Len(closeLog)
          /\ \A j \in 1..Len(closeLog) :
                LET at == closeLog[j].at
                IN  /\ at \in 1..Len(queue)
                    /\ queue[at] = PushChildrenCmd(closeLog[j].parent,
                                                   SpawnedIn(spawnLog, closeLog[j].scope))
                    /\ \A i \in 1..Len(queue) :
                          (queue[i].type = "Insert"
                             /\ queue[i].entity \in SeqToSet(queue[at].children)) => i < at
    /\ chPhase = "done" =>
          \A p \in Entities :
              /\ world.children[p] = ScopesChildren(closeLog, p)
              /\ NoDuplicates(world.children[p])
              /\ \A i \in 1..Len(world.children[p]) :
                    world.parent[world.children[p][i]] = p
              /\ \A j \in ScopesOn(p) :
                    Cardinality(ScopesOn(p)) = 1 =>
                        world.children[p] = SpawnedIn(spawnLog, closeLog[j].scope)

\* the scenario of spec.md section 8: one scope on the parent, three children
\* spawned (one of them a shape, one through spawn_empty), the queue applied
C5_Witness ==
    /\ chPhase = "done"
    /\ Len(closeLog) = 1
    /\ world.children[RootEntity] = <<2, 3, 4>>
    /\ \A n \in ComponentNames : world.components[2][n] = None
    /\ world.components[3]["Bundle"] # None
    /\ world.components[3]["Shape3d"] # None

(***************************************************************************)
(* Claims about the encoder                                                *)
(***************************************************************************)
Mat4Identity == Transform_compute_matrix(TransformIdentity)

\* the config the spawner held when it spawned entity e
SpawnConfig(e) ==
    spawnLog[CHOOSE i \in 1..Len(spawnLog) : spawnLog[i].entity = e].config[1]

\* C8 (as amended): the transform a record decodes to (ShapeData::transform) is
\* the matrix of the configuration's current transform on the immediate path
\* (QuadBezierData::new) and the matrix of the entity's world transform handed
\* to into_data on the persistent path; neither path composes the two.
C8_TransformPerPath ==
    /\ recI # None =>
          ShapeData_transform(recI[1]) = Transform_compute_matrix(painter.config.transform)
    /\ recP # None =>
          ShapeData_transform(recP[1].data) = GlobalTransform_compute_matrix(tf)

\* both records exist; the painter's config, the spawner's config at the spawn
\* and the entity's world transform are all different from the identity
C8_Witness ==
    /\ recI # None
    /\ recP # None
    /\ Transform_compute_matrix(painter.config.transform) # Mat4Identity
    /\ SpawnConfig(recP[1].entity).transform # TransformIdentity
    /\ GlobalTransform_compute_matrix(tf) # Mat4Identity
    /\ Transform_compute_matrix(painter.config.transform) # GlobalTransform_compute_matrix(tf)

\* C8 as stated: on both paths the record's transform is the configuration's
\* current transform (the painter's at the draw call, the spawner's at the
\* spawn) composed with the entity's world transform at encode time (the
\* immediate path has no entity: its world transform is the identity).  Either
\* order of composition is accepted.
C8_TransformComposed ==
    /\ recI # None =>
          ShapeData_transform(recI[1])
              = Mat4Mul(Transform_compute_matrix(painter.config.transform), Mat4Identity)
    /\ recP # None =>
          LET mc == Transform_compute_matrix(SpawnConfig(recP[1].entity).transform)
              mg == GlobalTransform_compute_matrix(tf)
          IN  ShapeData_transform(recP[1].data) \in {Mat4Mul(mc, mg), Mat4Mul(mg, mc)}

\* C9: the attribute list of vertex_layout has one attribute per field slot of
\* QuadBezierData in declaration order, each at the byte offset of its slot,
\* and the attributes cover the whole record.
C9_LayoutMatchesRecord ==
    layout # None =>
        /\ Len(layout[1]) = Len(QuadBezierDataSlots)
        /\ \A i \in 1..Len(layout[1]) :
              i <= Len(QuadBezierDataSlots) =>
                /\ layout[1][i].format = QuadBezierDataSlots[i].format
                /\ layout[1][i].offset = SlotOffset(QuadBezierDataSlots, i)
        /\ LayoutSize(layout[1]) = RecordSize(QuadBezierDataSlots)

\* C10: the persistent spawn path and the immediate path produce records whose
\* start, control and end equal each other and the argument of the same name,
\* and whose color, thickness and flags are equal.
C10_PathsAgree ==
    (recI # None /\ recP # None) =>
        /\ recI[1].start = pts.start /\ recP[1].data.start = pts.start
        /\ recI[1].control = pts.control /\ recP[1].data.control = pts.control
        /\ recI[1].end = pts.end /\ recP[1].data.end = pts.end
        /\ recI[1].color = recP[1].data.color
        /\ recI[1].thickness = recP[1].data.thickness
        /\ recI[1].flags = recP[1].data.flags

====
